---- MODULE Spec2Model ----
(***************************************************************************)
(* Model of component/resource/fetcher.go: Fetcher[V], the self-refreshing *)
(* cached resource.  One Fetcher, its vehicle (source adapter), its local  *)
(* mirror file, and the goroutines that drive it:                          *)
(*   "main"  calls Initial() and later Close()                             *)
(*   "user"  calls Update() and SideUpdate(buf) at arbitrary moments       *)
(*   "loop"  is the goroutine running pullLoop (poll strategy)             *)
(*   "watch" is the goroutine running updateCallback (watch strategy)      *)
(* Time is a discrete clock in seconds.                                    *)
(***************************************************************************)
EXTENDS Integers, Sequences, FiniteSets, TLC

\* ---------------------------------------------------------------- bounds
MaxTime == 60          \* the clock stops advancing here
TimeStep == 10         \* one Tick of the clock
StartTime == 40        \* clock value when Initial() is called
MaxAttempt == 2        \* cap on the backoff attempt counter
MaxCommits == 2        \* cap on the number of onUpdate invocations
MaxSourceChanges == 1  \* cap on the number of content changes of the source
MaxLog == 3            \* the most recent manual Update() calls kept in the history

\* -------------------------------------------------------------- constants
TenSeconds == 10       \* minBackoff := 10 * time.Second
BackoffFactor == 2     \* Factor: 2

Procs == {"main", "user", "loop", "watch"}
Kinds == {"File", "HTTP"}                \* vehicle.Type(): File => watch, else poll
Intervals == {0, 10, 30}                 \* configured interval, seconds
ModTimes == {0, 30}                      \* possible mtimes of an existing mirror

Nil == "nil"                             \* absent byte slice
Bytes == {"a", "b", "x"}                 \* byte buffers; "x" does not parse
Empty == <<"empty">>                     \* lo.Empty[V](), the zero value of V
NoErr == "ok"
ZeroHash == 0                            \* utils.HashType{} before the first commit

\* --------------------------------------------------------------- helpers
\* type Parser[V] func([]byte) (V, error): the injected parser, deterministic.
ParseOk(b) == b \in {"a", "b"}
Parse(b) == <<"V", b>>

\* utils.MakeHash(buf): a digest of the buffer; the digest of no bytes is a
\* valid (non-zero) hash.
MakeHash(b) == CASE b = Nil -> 1
                 [] b = "a" -> 2
                 [] b = "b" -> 3
                 [] b = "x" -> 4

\* utils.HashType.Equal
HashEqual(h1, h2) == h1 = h2

Min2(a, b) == IF a < b THEN a ELSE b

RECURSIVE Pow(_, _)
Pow(f, n) == IF n = 0 THEN 1 ELSE f * Pow(f, n - 1)

\* NewFetcher: minBackoff := 10s; if interval < minBackoff { minBackoff = interval }
BackoffMin(iv) == IF iv < TenSeconds THEN iv ELSE TenSeconds

\* NewFetcher: Max: interval
BackoffMax(iv) == iv

\* slowdown.Backoff.ForAttempt: grows geometrically with n from the minimum,
\* capped at the maximum.
ForAttempt(iv, n) == Min2(BackoffMax(iv), BackoffMin(iv) * Pow(BackoffFactor, n))

\* ------------------------------------------------------------------ state
VARIABLES
  kind, interval,                 \* configuration: vehicle.Type(), f.interval
  now,                            \* the clock
  hash, updatedAt, attempt,       \* f.hash, f.updatedAt, f.backoff.attempt
  watcher, ctxDone, mutex,        \* f.watcher, f.ctx cancelled, f.loadBufMutex owner
  source, mirror, mirrorModTime, mirrorReadable,  \* the vehicle's content, the file at vehicle.Path()
  pc, cont, buf, hsh, upd, old,   \* per goroutine: position, caller, loadBuf arguments, oldHash given to Read
  ret,                            \* per goroutine: (V, bool, error) of its last pipeline call
  modTime, initRet,               \* Initial: stat.ModTime(), and what Initial returned
  loopForce, initialInterval, timer,   \* pullLoop: forceUpdate, initialInterval, timer deadline
  nUpdate, nTrans, lastValue,     \* history: onUpdate invocations, changes of f.hash, last value given to onUpdate
  lastExec,                       \* history: the most recent loadBuf execution
                                  \* history: vehicle.Read calls made by Initial, what os.ReadFile gave Initial,
                                  \* changes of the source, updates run by pullLoop before its timer exists
  initReads, localBuf, srcChanges, forcedRuns,
  updLog,                         \* history: the most recent manual Update() calls, oldest first
                                  \* (kept by SpecSeq, where the calls come one after another)
  lastRead,                       \* history: the content the most recent vehicle.Read returned,
                                  \* "failed" once an Update has returned an error (kept by SpecRace)
  settled                         \* environment: the source keeps its content, reads and mirror
                                  \* writes succeed from now on (used by SpecPollOpen)

vars == <<kind, interval, now, hash, updatedAt, attempt, watcher, ctxDone, mutex,
          source, mirror, mirrorModTime, mirrorReadable,
          pc, cont, buf, hsh, upd, old, ret, modTime, initRet,
          loopForce, initialInterval, timer,
          nUpdate, nTrans, lastValue, lastExec,
          initReads, localBuf, srcChanges, forcedRuns, updLog, lastRead, settled>>

\* what only some of the specifications below keep
obsVars == <<updLog, lastRead, settled>>

fetcherVars == <<hash, updatedAt, attempt>>
fileVars == <<mirror, mirrorModTime, mirrorReadable>>
histVars == <<nUpdate, nTrans, lastValue>>
confVars == <<kind, interval>>

NoRet == [val |-> Empty, same |-> FALSE, err |-> "none"]
NoExec == [side |-> FALSE, buf |-> Nil, outcome |-> "none", same |-> FALSE, calls |-> 0,
           prev |-> "none", prevCalls |-> 0]
NoInit == [val |-> Empty, err |-> "none", path |-> "none", force |-> FALSE, age |-> 0]

\* NewFetcher, and the world in which Initial() is about to be called.
Init ==
  /\ kind \in Kinds
  /\ interval \in Intervals
  /\ now = StartTime
  /\ hash = ZeroHash
  /\ updatedAt = 0
  /\ attempt = 0
  /\ watcher = "nil"
  /\ ctxDone = FALSE
  /\ mutex = "free"
  /\ source \in Bytes
  /\ \/ mirror = "none" /\ mirrorModTime = 0 /\ mirrorReadable = FALSE
     \/ mirror \in {"a", "x"} /\ mirrorModTime \in ModTimes /\ mirrorReadable = TRUE
     \/ mirror = "a" /\ mirrorModTime = 0 /\ mirrorReadable = FALSE
  /\ pc = [p \in Procs |-> IF p = "main" THEN "start" ELSE "off"]
  /\ cont = [p \in Procs |-> "none"]
  /\ buf = [p \in Procs |-> Nil]
  /\ hsh = [p \in Procs |-> ZeroHash]
  /\ upd = [p \in Procs |-> FALSE]
  /\ old = [p \in Procs |-> ZeroHash]
  /\ ret = [p \in Procs |-> NoRet]
  /\ modTime = 0
  /\ initRet = NoInit
  /\ loopForce = FALSE
  /\ initialInterval = 0
  /\ timer = 0
  /\ nUpdate = 0
  /\ nTrans = 0
  /\ lastValue = Empty
  /\ lastExec = NoExec
  /\ initReads = 0
  /\ localBuf = "none"
  /\ srcChanges = 0
  /\ forcedRuns = 0
  /\ updLog = <<>>
  /\ lastRead = "none"
  /\ settled = FALSE

\* ------------------------------------------------------- the update pipeline
\* mutant of AfterPc: pullLoop returns once the Update of a tick has returned
AfterPc_ExitAfterTick(c) == CASE c = "init_local" -> "after_local"
                              [] c = "init_fallback" -> "after_update"
                              [] c = "force" -> "arm"
                              [] c = "tick" -> "exited"
                              [] OTHER -> "idle"

\* Where a goroutine continues once its pipeline call has returned.
AfterPc(c) == CASE c = "init_local" -> "after_local"
                [] c = "init_fallback" -> "after_update"
                [] c = "force" -> "arm"
                [] c = "tick" -> "resched"
                [] OTHER -> "idle"

\* Update(), line 86: vehicle.Read(f.ctx, f.hash) is called with the hash
\* stored at this moment; the lock is not held.  (A read of f.hash that is
\* torn by a concurrent commit gives a hash that matches nothing, and Read
\* then returns the full content, which ReadFinish allows in any case.)
UpdateCall(p, c) ==
  /\ cont' = [cont EXCEPT ![p] = c]
  /\ old' = [old EXCEPT ![p] = hash]
  /\ initReads' = IF p = "main" THEN initReads + 1 ELSE initReads

\* The vehicle's Read returns: a transport error, the content with its hash,
\* or no bytes with the old hash when the content still has that hash.
ReadResults(p) ==
  {[err |-> "read", buf |-> Nil, hash |-> ZeroHash],
   [err |-> NoErr, buf |-> source, hash |-> MakeHash(source)]}
  \cup (IF MakeHash(source) = old[p]
        THEN {[err |-> NoErr, buf |-> Nil, hash |-> old[p]]} ELSE {})

\* Update(), lines 86-91: Read has returned.  An error adds an attempt and
\* returns; otherwise loadBuf(buf, hash, f.vehicle.Type() != types.File).
UpdatePersist == kind # "File"

\* The result a goroutine holds after a pipeline call: Initial and manual
\* callers use it, updateWithLog (lines 206-220) only logs it.
Kept(p, r) == IF p \in {"main", "user"} THEN r ELSE NoRet

\* the locals of a call are dead once it has returned
ReadFinish(p) ==
  /\ pc[p] = "read"
  /\ \E r \in ReadResults(p) :
       IF r.err # NoErr
       THEN /\ attempt < MaxAttempt
            /\ attempt' = attempt + 1
            /\ ret' = [ret EXCEPT ![p] = Kept(p, [val |-> Empty, same |-> FALSE, err |-> r.err])]
            /\ pc' = [pc EXCEPT ![p] = AfterPc(cont[p])]
            /\ cont' = [cont EXCEPT ![p] = "none"]
            /\ UNCHANGED <<buf, hsh, upd>>
       ELSE /\ buf' = [buf EXCEPT ![p] = r.buf]
            /\ hsh' = [hsh EXCEPT ![p] = r.hash]
            /\ upd' = [upd EXCEPT ![p] = UpdatePersist]
            /\ pc' = [pc EXCEPT ![p] = "lock"]
            /\ UNCHANGED <<attempt, ret, cont>>
  /\ old' = [old EXCEPT ![p] = ZeroHash]
  /\ UNCHANGED <<confVars, now, hash, updatedAt, watcher, ctxDone, mutex, source, fileVars,
                 modTime, initRet, loopForce, initialInterval, timer,
                 histVars, lastExec, initReads, localBuf, srcChanges, forcedRuns>>

\* mutant of Lock: the commit phase is entered without waiting for the mutex
Lock_NoWait(p) ==
  /\ pc[p] = "lock"
  /\ mutex' = p
  /\ pc' = [pc EXCEPT ![p] = "body"]
  /\ UNCHANGED <<confVars, now, fetcherVars, watcher, ctxDone, source, fileVars,
                 cont, buf, hsh, upd, old, ret, modTime, initRet,
                 loopForce, initialInterval, timer, histVars, lastExec,
                 initReads, localBuf, srcChanges, forcedRuns>>

\* loadBuf, line 99: f.loadBufMutex.Lock()
Lock(p) ==
  /\ pc[p] = "lock"
  /\ mutex = "free"
  /\ mutex' = p
  /\ pc' = [pc EXCEPT ![p] = "body"]
  /\ UNCHANGED <<confVars, now, fetcherVars, watcher, ctxDone, source, fileVars,
                 cont, buf, hsh, upd, old, ret, modTime, initRet,
                 loopForce, initialInterval, timer, histVars, lastExec,
                 initReads, localBuf, srcChanges, forcedRuns>>

\* loadBuf, lines 103-135: which branch is taken.
LoadBufCase(h, b, u, writeOk) ==
  IF HashEqual(hash, h) THEN "same"
  ELSE IF b = Nil THEN "absent"
  ELSE IF ~ParseOk(b) THEN "parsefail"
  ELSE IF u /\ ~writeOk THEN "writefail"
  ELSE "commit"

\* mutants of HashAfter: f.hash = hash forgotten; f.hash advanced before the
\* write error is looked at
HashAfter_Never(c, h) == hash
HashAfter_BeforeWrite(c, h) == IF c \in {"commit", "writefail"} THEN h ELSE hash

\* f.hash after loadBuf (line 129)
HashAfter(c, h) == IF c = "commit" THEN h ELSE hash

\* f.updatedAt after loadBuf (lines 107, 128)
UpdatedAtAfter(c) == IF c \in {"same", "commit"} THEN now ELSE updatedAt

\* mutants of AttemptAfter: AddAttempt forgotten after a parse error; Reset
\* forgotten on the unchanged path
AttemptAfter_NoAdd(c) == CASE c \in {"same", "writefail", "commit"} -> 0
                           [] OTHER -> attempt
AttemptAfter_NoResetOnSame(c) == CASE c \in {"writefail", "commit"} -> 0
                                   [] c = "parsefail" -> attempt + 1
                                   [] OTHER -> attempt

\* more mutants of AttemptAfter: Reset forgotten after a successful parse;
\* Reset also called on the absent-bytes path
AttemptAfter_NoResetOnParse(c) == CASE c = "same" -> 0
                                    [] c = "parsefail" -> attempt + 1
                                    [] OTHER -> attempt
AttemptAfter_ResetOnAbsent(c) == CASE c = "parsefail" -> attempt + 1
                                   [] OTHER -> 0

\* f.backoff after loadBuf (lines 108, 118, 121)
AttemptAfter(c) == CASE c \in {"same", "writefail", "commit"} -> 0
                     [] c = "parsefail" -> attempt + 1
                     [] OTHER -> attempt

\* mutant of OnUpdateCalls: the callback also fires on a no-op refresh
OnUpdateCalls_OnSame(c) == IF c \in {"commit", "same"} THEN 1 ELSE 0

\* number of f.onUpdate(contents) calls made by loadBuf (lines 131-133)
OnUpdateCalls(c) == IF c = "commit" THEN 1 ELSE 0

\* mutant of LoadBufResult: the equal-fingerprint path reports a change
LoadBufResult_NeverSame(c, b) ==
  CASE c \in {"same", "absent"} -> [val |-> Empty, same |-> FALSE, err |-> NoErr]
    [] c = "parsefail" -> [val |-> Empty, same |-> FALSE, err |-> "parse"]
    [] c = "writefail" -> [val |-> Empty, same |-> FALSE, err |-> "write"]
    [] OTHER -> [val |-> Parse(b), same |-> FALSE, err |-> NoErr]

\* what loadBuf returns (lines 109, 113, 119, 125, 135)
LoadBufResult(c, b) ==
  CASE c \in {"same", "absent"} -> [val |-> Empty, same |-> TRUE, err |-> NoErr]
    [] c = "parsefail" -> [val |-> Empty, same |-> FALSE, err |-> "parse"]
    [] c = "writefail" -> [val |-> Empty, same |-> FALSE, err |-> "write"]
    [] OTHER -> [val |-> Parse(b), same |-> FALSE, err |-> NoErr]

\* mutant of MirrorAfter: the write reports success and stores nothing
MirrorAfter_NoWrite(c, b, u) == mirror

\* mutant of MirrorAfter: the unchanged path writes the bytes again
MirrorAfter_OnSame(c, b, u) == IF c \in {"commit", "same"} /\ u /\ b # Nil THEN b ELSE mirror

\* the file at vehicle.Path() after loadBuf: os.Chtimes (line 105) touches
\* an existing file, vehicle.Write (line 124) replaces it.
MirrorAfter(c, b, u) == IF c = "commit" /\ u THEN b ELSE mirror
MirrorModTimeAfter(c, u) ==
  IF u /\ (c = "commit" \/ (c = "same" /\ mirror # "none")) THEN now ELSE mirrorModTime
MirrorReadableAfter(c, u) == IF c = "commit" /\ u THEN TRUE ELSE mirrorReadable

\* history: this execution of loadBuf, and the one before it when both are
\* SideUpdate calls with identical bytes
Executed(p, c) ==
  LET again == cont[p] = "side" /\ lastExec.side /\ lastExec.buf = buf[p] IN
  [side |-> (cont[p] = "side"), buf |-> buf[p], outcome |-> c,
   same |-> LoadBufResult(c, buf[p]).same, calls |-> OnUpdateCalls(c),
   prev |-> IF again THEN lastExec.outcome ELSE "none",
   prevCalls |-> IF again THEN lastExec.calls ELSE 0]

\* loadBuf, lines 102-135 and the deferred Unlock, run by the lock holder.
LoadBuf(p) ==
  /\ pc[p] = "body"
  /\ mutex = p
  /\ \E writeOk \in BOOLEAN :
       LET c == LoadBufCase(hsh[p], buf[p], upd[p], writeOk) IN
       /\ (~upd[p] \/ ~ParseOk(buf[p]) \/ HashEqual(hash, hsh[p])) => writeOk
       /\ c = "parsefail" => attempt < MaxAttempt
       /\ c = "commit" => nUpdate < MaxCommits
       /\ hash' = HashAfter(c, hsh[p])
       /\ updatedAt' = UpdatedAtAfter(c)
       /\ attempt' = AttemptAfter(c)
       /\ mirror' = MirrorAfter(c, buf[p], upd[p])
       /\ mirrorModTime' = MirrorModTimeAfter(c, upd[p])
       /\ mirrorReadable' = MirrorReadableAfter(c, upd[p])
       /\ nUpdate' = nUpdate + OnUpdateCalls(c)
       /\ nTrans' = IF hash' # hash THEN nTrans + 1 ELSE nTrans
       /\ lastValue' = IF OnUpdateCalls(c) > 0 THEN Parse(buf[p]) ELSE lastValue
       /\ ret' = [ret EXCEPT ![p] = Kept(p, LoadBufResult(c, buf[p]))]
       /\ lastExec' = Executed(p, c)
  /\ mutex' = "free"
  /\ pc' = [pc EXCEPT ![p] = AfterPc(cont[p])]
  /\ cont' = [cont EXCEPT ![p] = "none"]
  /\ buf' = [buf EXCEPT ![p] = Nil]
  /\ hsh' = [hsh EXCEPT ![p] = ZeroHash]
  /\ upd' = [upd EXCEPT ![p] = FALSE]
  /\ UNCHANGED <<confVars, now, watcher, ctxDone, source, old,
                 modTime, initRet, loopForce, initialInterval, timer,
                 initReads, localBuf, srcChanges, forcedRuns>>

\* ------------------------------------------------------------ refresh driver
\* startPullLoop(forceUpdate), lines 181-200.  w is what the watch
\* collaborator does: NewWatcher fails, Start fails, or both succeed.
WatchOutcomes == {"ok", "new_failed", "start_failed"}

\* the error startPullLoop returns
StartErr(w) == IF kind = "File" /\ w # "ok" THEN "watch" ELSE NoErr

\* f.watcher after startPullLoop (line 184 assigns it even when Start fails)
WatcherAfter(w) ==
  IF kind = "File"
  THEN CASE w = "ok" -> "started" [] w = "new_failed" -> "nil" [] OTHER -> "created"
  ELSE watcher

\* mutant of StartsLoop: "if" in place of "else if"
StartsLoop_NoElse == interval > 0

\* line 196: else if f.interval > 0 { go f.pullLoop(forceUpdate) }
StartsLoop == kind # "File" /\ interval > 0

\* mutant of PcAfterStart: Initial returns the error of its fallback Update
\* before startPullLoop
PcAfterStart_NotAfterError(w, mainPc) ==
  [pc EXCEPT !["main"] = mainPc,
             !["user"] = "idle",
             !["watch"] = IF kind = "File" /\ w = "ok" THEN "idle" ELSE @,
             !["loop"] = IF StartsLoop /\ ret["main"].err = NoErr THEN "begin" ELSE @]

\* the goroutines after startPullLoop, with Initial returning to its caller
\* (manual calls come after Initial has returned)
PcAfterStart(w, mainPc) ==
  [pc EXCEPT !["main"] = mainPc,
             !["user"] = "idle",
             !["watch"] = IF kind = "File" /\ w = "ok" THEN "idle" ELSE @,
             !["loop"] = IF StartsLoop THEN "begin" ELSE @]

\* mutant of Stale: the comparison inverted
Stale_Inverted(age) == age < interval

\* line 61: time.Since(modTime) > f.interval
Stale(age) == age > interval

\* mutant of InitialPersist: the local file is written back
InitialPersist_True == TRUE

\* line 57: loadBuf(buf, utils.MakeHash(buf), false)
InitialPersist == FALSE

\* mutant of FallbackForce: a refresh is forced after the fallback Update
FallbackForce_True == TRUE

\* line 73: f.startPullLoop(false)
FallbackForce == FALSE

\* Initial, lines 53-57 (and 70 when there is no local file): os.Stat, then
\* either os.ReadFile and the call of loadBuf(buf, MakeHash(buf), false), or
\* the call of Update().
InitialStat ==
  /\ pc["main"] = "start"
  /\ IF mirror # "none"
     THEN LET b == IF mirrorReadable THEN mirror ELSE Nil IN
          /\ buf' = [buf EXCEPT !["main"] = b]
          /\ hsh' = [hsh EXCEPT !["main"] = MakeHash(b)]
          /\ upd' = [upd EXCEPT !["main"] = InitialPersist]
          /\ modTime' = mirrorModTime
          /\ localBuf' = b
          /\ cont' = [cont EXCEPT !["main"] = "init_local"]
          /\ pc' = [pc EXCEPT !["main"] = "lock"]
          /\ UNCHANGED <<old, initReads>>
     ELSE /\ UpdateCall("main", "init_fallback")
          /\ pc' = [pc EXCEPT !["main"] = "read"]
          /\ UNCHANGED <<buf, hsh, upd, modTime, localBuf>>
  /\ UNCHANGED <<confVars, now, fetcherVars, watcher, ctxDone, mutex, source, fileVars,
                 ret, initRet, loopForce, initialInterval, timer, histVars, lastExec,
                 srcChanges, forcedRuns>>

\* Initial, lines 58-66 (and 70): loadBuf of the local file has returned.
InitialAfterLocal ==
  /\ pc["main"] = "after_local"
  /\ updatedAt' = modTime
  /\ IF ret["main"].err = NoErr
     THEN \E w \in WatchOutcomes :
            /\ kind # "File" => w = "ok"
            /\ watcher' = WatcherAfter(w)
            /\ pc' = PcAfterStart(w, "ready")
            /\ loopForce' = IF StartsLoop THEN Stale(now - modTime) ELSE loopForce
            /\ initRet' = [val |-> IF StartErr(w) = NoErr THEN ret["main"].val ELSE Empty,
                           err |-> StartErr(w), path |-> "local",
                           force |-> Stale(now - modTime), age |-> now - modTime]
            /\ UNCHANGED <<cont, old, initReads>>
     ELSE /\ UpdateCall("main", "init_fallback")
          /\ pc' = [pc EXCEPT !["main"] = "read"]
          /\ UNCHANGED <<watcher, loopForce, initRet>>
  /\ UNCHANGED <<confVars, now, hash, attempt, ctxDone, mutex, source, fileVars,
                 buf, hsh, upd, ret, modTime, initialInterval, timer, histVars, lastExec,
                 srcChanges, forcedRuns, localBuf>>

\* Initial, lines 72-82: the fallback Update() has returned.
InitialAfterUpdate ==
  /\ pc["main"] = "after_update"
  /\ \E w \in WatchOutcomes :
       /\ kind # "File" => w = "ok"
       /\ watcher' = WatcherAfter(w)
       /\ pc' = PcAfterStart(w, "ready")
       /\ loopForce' = IF StartsLoop THEN FallbackForce ELSE loopForce
       /\ initRet' = [val |-> IF StartErr(w) = NoErr /\ ret["main"].err = NoErr
                              THEN ret["main"].val ELSE Empty,
                      err |-> IF StartErr(w) # NoErr THEN StartErr(w) ELSE ret["main"].err,
                      path |-> "fallback", force |-> FallbackForce,
                      age |-> IF localBuf = "none" THEN 0 ELSE now - modTime]
  /\ UNCHANGED <<confVars, now, fetcherVars, ctxDone, mutex, source, fileVars,
                 cont, buf, hsh, upd, old, ret, modTime, initialInterval, timer,
                 histVars, lastExec, initReads, localBuf, srcChanges, forcedRuns>>

\* Close, lines 138-144.
Close ==
  /\ pc["main"] = "ready"
  /\ ctxDone' = TRUE
  /\ watcher' = IF watcher # "nil" THEN "closed" ELSE watcher
  /\ pc' = [pc EXCEPT !["main"] = "closed"]
  /\ UNCHANGED <<confVars, now, fetcherVars, mutex, source, fileVars,
                 cont, buf, hsh, upd, old, ret, modTime, initRet,
                 loopForce, initialInterval, timer, histVars, lastExec,
                 initReads, localBuf, srcChanges, forcedRuns>>

\* mutant of Shortened: the comparison inverted, the longer delay is used
Shortened_Longer(d) ==
  IF attempt > 0 /\ ForAttempt(interval, attempt) > d
  THEN ForAttempt(interval, attempt) ELSE d

\* the wait after an update: f.interval, or the backoff delay when that is
\* shorter and the last update failed (lines 156-160, 168-173)
Shortened(d) ==
  IF attempt > 0 /\ ForAttempt(interval, attempt) < d
  THEN ForAttempt(interval, attempt) ELSE d

\* pullLoop, lines 147-155: the initial interval, then the forced update.
PullLoopBegin ==
  /\ pc["loop"] = "begin"
  /\ initialInterval' = Min2(interval - (now - updatedAt), interval)
  /\ IF loopForce
     THEN /\ UpdateCall("loop", "force")
          /\ pc' = [pc EXCEPT !["loop"] = "read"]
          /\ forcedRuns' = forcedRuns + 1
     ELSE /\ pc' = [pc EXCEPT !["loop"] = "arm"]
          /\ UNCHANGED <<cont, old, initReads, forcedRuns>>
  /\ UNCHANGED <<confVars, now, fetcherVars, watcher, ctxDone, mutex, source, fileVars,
                 buf, hsh, upd, ret, modTime, initRet, loopForce, timer,
                 histVars, lastExec, srcChanges, localBuf>>

\* pullLoop, lines 156-162: time.NewTimer(initialInterval); the local is
\* dead afterwards
PullLoopArm ==
  /\ pc["loop"] = "arm"
  /\ timer' = now + Shortened(initialInterval)
  /\ initialInterval' = 0
  /\ pc' = [pc EXCEPT !["loop"] = "wait"]
  /\ UNCHANGED <<confVars, now, fetcherVars, watcher, ctxDone, mutex, source, fileVars,
                 cont, buf, hsh, upd, old, ret, modTime, initRet,
                 loopForce, histVars, lastExec,
                 initReads, localBuf, srcChanges, forcedRuns>>

\* pullLoop, lines 165-167: case <-timer.C, the call of updateWithLog; the
\* timer holds no deadline until it is Reset
TimerFire ==
  /\ pc["loop"] = "wait"
  /\ now >= timer
  /\ UpdateCall("loop", "tick")
  /\ timer' = 0
  /\ pc' = [pc EXCEPT !["loop"] = "read"]
  /\ UNCHANGED <<confVars, now, fetcherVars, watcher, ctxDone, mutex, source, fileVars,
                 buf, hsh, upd, ret, modTime, initRet,
                 loopForce, initialInterval, histVars, lastExec,
                 srcChanges, forcedRuns, localBuf>>

\* pullLoop, lines 168-174: timer.Reset(interval)
PullLoopReset ==
  /\ pc["loop"] = "resched"
  /\ timer' = now + Shortened(interval)
  /\ pc' = [pc EXCEPT !["loop"] = "wait"]
  /\ UNCHANGED <<confVars, now, fetcherVars, watcher, ctxDone, mutex, source, fileVars,
                 cont, buf, hsh, upd, old, ret, modTime, initRet,
                 loopForce, initialInterval, histVars, lastExec,
                 initReads, localBuf, srcChanges, forcedRuns>>

\* pullLoop, lines 175-176: case <-f.ctx.Done(): return
PullLoopExit ==
  /\ pc["loop"] = "wait"
  /\ ctxDone
  /\ timer' = 0
  /\ pc' = [pc EXCEPT !["loop"] = "exited"]
  /\ UNCHANGED <<confVars, now, fetcherVars, watcher, ctxDone, mutex, source, fileVars,
                 cont, buf, hsh, upd, old, ret, modTime, initRet,
                 loopForce, initialInterval, histVars, lastExec,
                 initReads, localBuf, srcChanges, forcedRuns>>

\* updateCallback, lines 202-204: a notification of the started watcher
UpdateCallback ==
  /\ pc["watch"] = "idle"
  /\ watcher = "started"
  /\ UpdateCall("watch", "watch")
  /\ pc' = [pc EXCEPT !["watch"] = "read"]
  /\ UNCHANGED <<confVars, now, fetcherVars, watcher, ctxDone, mutex, source, fileVars,
                 buf, hsh, upd, ret, modTime, initRet,
                 loopForce, initialInterval, timer, histVars, lastExec,
                 srcChanges, forcedRuns, localBuf>>

\* ------------------------------------------------------------ manual calls
\* a caller's Update(), line 85
UserUpdate ==
  /\ pc["user"] = "idle"
  /\ UpdateCall("user", "update")
  /\ pc' = [pc EXCEPT !["user"] = "read"]
  /\ UNCHANGED <<confVars, now, fetcherVars, watcher, ctxDone, mutex, source, fileVars,
                 buf, hsh, upd, ret, modTime, initRet,
                 loopForce, initialInterval, timer, histVars, lastExec,
                 srcChanges, forcedRuns, localBuf>>

\* a caller's SideUpdate(b), lines 94-96: loadBuf(buf, MakeHash(buf), true)
SideUpdate(b) ==
  /\ pc["user"] = "idle"
  /\ buf' = [buf EXCEPT !["user"] = b]
  /\ hsh' = [hsh EXCEPT !["user"] = MakeHash(b)]
  /\ upd' = [upd EXCEPT !["user"] = TRUE]
  /\ cont' = [cont EXCEPT !["user"] = "side"]
  /\ pc' = [pc EXCEPT !["user"] = "lock"]
  /\ UNCHANGED <<confVars, now, fetcherVars, watcher, ctxDone, mutex, source, fileVars,
                 old, ret, modTime, initRet,
                 loopForce, initialInterval, timer, histVars, lastExec,
                 initReads, localBuf, srcChanges, forcedRuns>>

\* ------------------------------------------------------------- environment
\* time passes
Tick ==
  /\ now + TimeStep <= MaxTime
  /\ now' = now + TimeStep
  /\ UNCHANGED <<confVars, fetcherVars, watcher, ctxDone, mutex, source, fileVars,
                 pc, cont, buf, hsh, upd, old, ret, modTime, initRet,
                 loopForce, initialInterval, timer, histVars, lastExec,
                 initReads, localBuf, srcChanges, forcedRuns>>

\* the content behind the vehicle changes
SourceChange ==
  /\ srcChanges < MaxSourceChanges
  /\ srcChanges' = srcChanges + 1
  /\ \E b \in Bytes \ {source} : source' = b
  /\ UNCHANGED <<confVars, now, fetcherVars, watcher, ctxDone, mutex, fileVars,
                 pc, cont, buf, hsh, upd, old, ret, modTime, initRet,
                 loopForce, initialInterval, timer, histVars, lastExec,
                 initReads, localBuf, forcedRuns>>

Next ==
  \/ InitialStat /\ UNCHANGED obsVars
  \/ InitialAfterLocal /\ UNCHANGED obsVars
  \/ InitialAfterUpdate /\ UNCHANGED obsVars
  \/ Close /\ UNCHANGED obsVars
  \/ \E p \in Procs : ReadFinish(p) /\ UNCHANGED obsVars
  \/ \E p \in Procs : Lock(p) /\ UNCHANGED obsVars
  \/ \E p \in Procs : LoadBuf(p) /\ UNCHANGED obsVars
  \/ PullLoopBegin /\ UNCHANGED obsVars
  \/ PullLoopArm /\ UNCHANGED obsVars
  \/ TimerFire /\ UNCHANGED obsVars
  \/ PullLoopReset /\ UNCHANGED obsVars
  \/ PullLoopExit /\ UNCHANGED obsVars
  \/ UpdateCallback /\ UNCHANGED obsVars
  \/ UserUpdate /\ UNCHANGED obsVars
  \/ \E b \in Bytes : SideUpdate(b) /\ UNCHANGED obsVars
  \/ Tick /\ UNCHANGED obsVars
  \/ SourceChange /\ UNCHANGED obsVars

Spec == Init /\ [][Next]_vars

\* Bootstrap: Initial() from every configuration, up to the first wait of
\* the poll loop.  Nothing else runs before Initial has returned.
NextBoot ==
  \/ InitialStat /\ UNCHANGED obsVars
  \/ InitialAfterLocal /\ UNCHANGED obsVars
  \/ InitialAfterUpdate /\ UNCHANGED obsVars
  \/ \E p \in {"main", "loop"} : ReadFinish(p) /\ UNCHANGED obsVars
  \/ \E p \in {"main", "loop"} : Lock(p) /\ UNCHANGED obsVars
  \/ \E p \in {"main", "loop"} : LoadBuf(p) /\ UNCHANGED obsVars
  \/ PullLoopBegin /\ UNCHANGED obsVars
  \/ PullLoopArm /\ UNCHANGED obsVars
  \/ Close /\ UNCHANGED obsVars
  \/ PullLoopExit /\ UNCHANGED obsVars
  \/ Tick /\ UNCHANGED obsVars
  \/ SourceChange /\ UNCHANGED obsVars

SpecBoot == Init /\ [][NextBoot]_vars

\* Watch strategy: a File vehicle, the watch callback and a manual caller
\* racing on the pipeline, from a resource that has no mirror or a good one.
\* No timer exists, so the clock stands still.
InitWatch ==
  /\ Init
  /\ kind = "File" /\ interval = 30
  /\ source = "a"
  /\ mirror = "none" \/ (mirror = "a" /\ mirrorModTime = 0 /\ mirrorReadable)

NextWatch ==
  \/ InitialStat /\ UNCHANGED obsVars
  \/ InitialAfterLocal /\ UNCHANGED obsVars
  \/ InitialAfterUpdate /\ UNCHANGED obsVars
  \/ \E p \in Procs : ReadFinish(p) /\ UNCHANGED obsVars
  \/ \E p \in Procs : Lock(p) /\ UNCHANGED obsVars
  \/ \E p \in Procs : LoadBuf(p) /\ UNCHANGED obsVars
  \/ UpdateCallback /\ UNCHANGED obsVars
  \/ UserUpdate /\ UNCHANGED obsVars
  \/ \E b \in Bytes : SideUpdate(b) /\ UNCHANGED obsVars
  \/ SourceChange /\ UNCHANGED obsVars

SpecWatch == InitWatch /\ [][NextWatch]_vars

\* Poll strategy: a remote vehicle with interval > 0, the timer loop and
\* Close, with time passing.
InitPoll == Init /\ kind = "HTTP" /\ interval > 0

NextPoll ==
  \/ InitialStat /\ UNCHANGED obsVars
  \/ InitialAfterLocal /\ UNCHANGED obsVars
  \/ InitialAfterUpdate /\ UNCHANGED obsVars
  \/ Close /\ UNCHANGED obsVars
  \/ \E p \in {"main", "loop"} : ReadFinish(p) /\ UNCHANGED obsVars
  \/ \E p \in {"main", "loop"} : Lock(p) /\ UNCHANGED obsVars
  \/ \E p \in {"main", "loop"} : LoadBuf(p) /\ UNCHANGED obsVars
  \/ PullLoopBegin /\ UNCHANGED obsVars
  \/ PullLoopArm /\ UNCHANGED obsVars
  \/ TimerFire /\ UNCHANGED obsVars
  \/ PullLoopReset /\ UNCHANGED obsVars
  \/ PullLoopExit /\ UNCHANGED obsVars
  \/ Tick /\ UNCHANGED obsVars
  \/ SourceChange /\ UNCHANGED obsVars

SpecPoll == InitPoll /\ [][NextPoll]_vars

\* The poll strategy under fair scheduling: the pullLoop goroutine keeps
\* being scheduled, a vehicle.Read returns, the mutex is granted, and select
\* (which picks at random among its ready cases) does not pass over a ready
\* ctx.Done() for ever.
FairPoll ==
  /\ WF_vars(ReadFinish("loop") /\ UNCHANGED obsVars)
  /\ WF_vars(Lock("loop") /\ UNCHANGED obsVars)
  /\ WF_vars(LoadBuf("loop") /\ UNCHANGED obsVars)
  /\ WF_vars(PullLoopBegin /\ UNCHANGED obsVars)
  /\ WF_vars(PullLoopArm /\ UNCHANGED obsVars)
  /\ WF_vars(PullLoopReset /\ UNCHANGED obsVars)
  /\ SF_vars(PullLoopExit /\ UNCHANGED obsVars)

SpecPollFair == SpecPoll /\ FairPoll

\* The poll strategy of a fetcher that is never closed, in an environment
\* that settles at some moment: from then on the source keeps the parseable
\* content it has, every vehicle.Read succeeds and no vehicle.Write fails.
Settle ==
  /\ ~settled /\ ParseOk(source)
  /\ settled' = TRUE
  /\ UNCHANGED <<confVars, now, fetcherVars, watcher, ctxDone, mutex, source, fileVars,
                 pc, cont, buf, hsh, upd, old, ret, modTime, initRet,
                 loopForce, initialInterval, timer, histVars, lastExec,
                 initReads, localBuf, srcChanges, forcedRuns, updLog, lastRead>>

ReadFinishEnv(p) ==
  ReadFinish(p) /\ (settled => pc'[p] = "lock") /\ UNCHANGED obsVars

LoadBufEnv(p) ==
  LoadBuf(p) /\ (settled => lastExec'.outcome # "writefail") /\ UNCHANGED obsVars

NextPollOpen ==
  \/ InitialStat /\ UNCHANGED obsVars
  \/ InitialAfterLocal /\ UNCHANGED obsVars
  \/ InitialAfterUpdate /\ UNCHANGED obsVars
  \/ \E p \in {"main", "loop"} : ReadFinishEnv(p)
  \/ \E p \in {"main", "loop"} : Lock(p) /\ UNCHANGED obsVars
  \/ \E p \in {"main", "loop"} : LoadBufEnv(p)
  \/ PullLoopBegin /\ UNCHANGED obsVars
  \/ PullLoopArm /\ UNCHANGED obsVars
  \/ TimerFire /\ UNCHANGED obsVars
  \/ PullLoopReset /\ UNCHANGED obsVars
  \/ Tick /\ UNCHANGED obsVars
  \/ SourceChange /\ ~settled /\ UNCHANGED obsVars
  \/ Settle

\* Fair scheduling: Initial runs to its return, the pullLoop goroutine keeps
\* being scheduled, a vehicle.Read returns, the mutex is granted, time
\* passes, and select takes a timer that has expired (no other case is
\* ready while the context is live).
FairPollOpen ==
  /\ WF_vars(InitialStat /\ UNCHANGED obsVars)
  /\ WF_vars(InitialAfterLocal /\ UNCHANGED obsVars)
  /\ WF_vars(InitialAfterUpdate /\ UNCHANGED obsVars)
  /\ \A p \in {"main", "loop"} :
       /\ WF_vars(ReadFinishEnv(p))
       /\ WF_vars(Lock(p) /\ UNCHANGED obsVars)
       /\ WF_vars(LoadBufEnv(p))
  /\ WF_vars(PullLoopBegin /\ UNCHANGED obsVars)
  /\ WF_vars(PullLoopArm /\ UNCHANGED obsVars)
  /\ WF_vars(TimerFire /\ UNCHANGED obsVars)
  /\ WF_vars(PullLoopReset /\ UNCHANGED obsVars)
  /\ WF_vars(Tick /\ UNCHANGED obsVars)

SpecPollOpen == InitPoll /\ [][NextPollOpen]_vars /\ FairPollOpen

\* Persisting commits: a remote vehicle, whose Update() calls persist, with
\* a caller's Update() and SideUpdate(buf) calls racing with the forced
\* refresh and the first ticks of the timer loop.  The clock stands still.
InitPersist == Init /\ kind = "HTTP" /\ interval = 10

NextPersist ==
  \/ InitialStat /\ UNCHANGED obsVars
  \/ InitialAfterLocal /\ UNCHANGED obsVars
  \/ InitialAfterUpdate /\ UNCHANGED obsVars
  \/ \E p \in {"main", "user", "loop"} : ReadFinish(p) /\ UNCHANGED obsVars
  \/ \E p \in {"main", "user", "loop"} : Lock(p) /\ UNCHANGED obsVars
  \/ \E p \in {"main", "user", "loop"} : LoadBuf(p) /\ UNCHANGED obsVars
  \/ PullLoopBegin /\ UNCHANGED obsVars
  \/ PullLoopArm /\ UNCHANGED obsVars
  \/ TimerFire /\ UNCHANGED obsVars
  \/ PullLoopReset /\ UNCHANGED obsVars
  \/ UserUpdate /\ UNCHANGED obsVars
  \/ \E b \in Bytes : SideUpdate(b) /\ UNCHANGED obsVars
  \/ SourceChange /\ UNCHANGED obsVars

SpecPersist == InitPersist /\ [][NextPersist]_vars

\* Racing refreshes: a remote vehicle whose timer loop runs its forced
\* refresh and its first ticks while a caller calls Update().  The clock
\* stands still.  lastRead follows the reads: a vehicle.Read that succeeds
\* has returned the source's content of that moment (as bytes, or as "not
\* modified" for the hash it was given).
LogLastRead(p) ==
  lastRead' = IF lastRead = "failed" \/ pc'[p] # "lock" THEN "failed" ELSE source

LogResult(p) ==
  lastRead' = IF lastExec'.outcome \in {"parsefail", "writefail"} THEN "failed" ELSE lastRead

NextRace ==
  \/ InitialStat /\ UNCHANGED obsVars
  \/ InitialAfterLocal /\ UNCHANGED obsVars
  \/ InitialAfterUpdate /\ UNCHANGED obsVars
  \/ \E p \in {"main", "user", "loop"} :
       ReadFinish(p) /\ LogLastRead(p) /\ UNCHANGED <<updLog, settled>>
  \/ \E p \in {"main", "user", "loop"} : Lock(p) /\ UNCHANGED obsVars
  \/ \E p \in {"main", "user", "loop"} :
       LoadBuf(p) /\ LogResult(p) /\ UNCHANGED <<updLog, settled>>
  \/ PullLoopBegin /\ UNCHANGED obsVars
  \/ PullLoopArm /\ UNCHANGED obsVars
  \/ TimerFire /\ UNCHANGED obsVars
  \/ PullLoopReset /\ UNCHANGED obsVars
  \/ UserUpdate /\ UNCHANGED obsVars
  \/ SourceChange /\ UNCHANGED obsVars

SpecRace == InitPersist /\ [][NextRace]_vars

\* Manual refresh: a remote vehicle with interval = 0 has no background
\* driver, so after Initial() the caller's Update() calls are the only
\* pipeline executions and come one after another.  Each is recorded.
Logged(e) == IF Len(updLog) < MaxLog THEN Append(updLog, e) ELSE Append(Tail(updLog), e)

\* Update() has returned at line 89 with the error of vehicle.Read
LogRead ==
  updLog' = IF pc'["user"] = "lock" THEN updLog
            ELSE Logged([stored |-> hash, read |-> ZeroHash, readOk |-> FALSE,
                         same |-> ret'["user"].same, err |-> ret'["user"].err, calls |-> 0])

\* Update() has returned what loadBuf returned (line 91)
LogCommit ==
  updLog' = Logged([stored |-> hash, read |-> hsh["user"], readOk |-> TRUE,
                    same |-> ret'["user"].same, err |-> ret'["user"].err,
                    calls |-> nUpdate' - nUpdate])

InitSeq == Init /\ kind = "HTTP" /\ interval = 0

NextSeq ==
  \/ InitialStat /\ UNCHANGED obsVars
  \/ InitialAfterLocal /\ UNCHANGED obsVars
  \/ InitialAfterUpdate /\ UNCHANGED obsVars
  \/ ReadFinish("main") /\ UNCHANGED obsVars
  \/ Lock("main") /\ UNCHANGED obsVars
  \/ LoadBuf("main") /\ UNCHANGED obsVars
  \/ UserUpdate /\ UNCHANGED obsVars
  \/ ReadFinish("user") /\ LogRead /\ UNCHANGED <<lastRead, settled>>
  \/ Lock("user") /\ UNCHANGED obsVars
  \/ LoadBuf("user") /\ LogCommit /\ UNCHANGED <<lastRead, settled>>
  \/ SourceChange /\ UNCHANGED obsVars

SpecSeq == InitSeq /\ [][NextSeq]_vars

TypeOK ==
  /\ kind \in Kinds /\ interval \in Intervals
  /\ now \in StartTime..MaxTime
  /\ hash \in 0..4 /\ attempt \in 0..MaxAttempt
  /\ mutex \in Procs \cup {"free"}
  /\ nUpdate \in 0..MaxCommits
  /\ lastRead \in Bytes \cup {"none", "failed"} /\ settled \in BOOLEAN

\* ==================================================================== claims
MaxInterval == 40      \* intervals 0..MaxInterval for the backoff delays

\* C1: onUpdate is invoked exactly once by each commit that changes f.hash
\* and never by an execution whose fingerprint equals the stored one; the
\* number of onUpdate invocations always equals the number of changes of
\* f.hash.
C1_OnUpdatePerTransition ==
  /\ [](nUpdate = nTrans)
  /\ [][ /\ hash' # hash => nUpdate' = nUpdate + 1
         /\ hash' = hash => nUpdate' = nUpdate
         /\ \A p \in Procs :
              (pc[p] = "body" /\ pc'[p] # "body" /\ HashEqual(hash, hsh[p]))
                => nUpdate' = nUpdate ]_vars

\* two commits, then a no-op refresh
C1_Witness == nUpdate = 2 /\ nTrans = 2 /\ lastExec.outcome = "same"

\* C2 (as claimed): once Close() has returned, the background driver starts
\* no further vehicle.Read (and so no further onUpdate); only an execution
\* already in flight may finish.
C2_NoReadAfterClose ==
  [][ ctxDone => \A p \in {"loop", "watch"} : (pc'[p] = "read" => pc[p] = "read") ]_vars

\* C3 (as claimed): the second of two SideUpdate calls in a row with
\* identical bytes reports unchanged, and the two calls invoke onUpdate at
\* most once, whatever the outcome of the first call.
C3_Original ==
  (lastExec.side /\ lastExec.prev # "none")
    => (lastExec.same /\ lastExec.calls + lastExec.prevCalls <= 1)

\* C3 (amended): of two SideUpdate calls with identical bytes and no other
\* loadBuf execution in between, the second reports unchanged when the first
\* committed the bytes or reported unchanged itself; after a parse failure
\* the second fails to parse again, after a mirror-write failure it parses
\* and writes again, both with wasUnchanged=false; onUpdate is invoked at
\* most once by the two calls.
C3_Amended ==
  (lastExec.side /\ lastExec.prev # "none") =>
    /\ lastExec.calls + lastExec.prevCalls <= 1
    /\ lastExec.prev \in {"commit", "same"}
         => (lastExec.outcome = "same" /\ lastExec.same /\ lastExec.calls = 0)
    /\ lastExec.prev = "parsefail"
         => (lastExec.outcome = "parsefail" /\ ~lastExec.same)
    /\ lastExec.prev = "writefail"
         => (lastExec.outcome \in {"writefail", "commit"} /\ ~lastExec.same)

\* the second SideUpdate of committed bytes has reported unchanged
C3_Witness ==
  /\ lastExec.side /\ lastExec.prev = "commit" /\ lastExec.outcome = "same"
  /\ pc["user"] = "idle" /\ ret["user"].same

\* C4 (as claimed): with a readable, parseable mirror older than interval,
\* Initial starts the driver with a forced refresh, and exactly one Update
\* has run when the timer is created, for every vehicle kind and interval.
C4_Original ==
  (/\ pc["main"] = "ready" /\ initRet.path = "local" /\ initRet.err = NoErr
   /\ localBuf \in Bytes /\ initRet.age > interval)
    => /\ pc["loop"] # "off" /\ loopForce
       /\ pc["loop"] \in {"wait", "exited"} => forcedRuns = 1

\* C4 (amended): that holds for a remote vehicle with interval > 0; for a
\* File vehicle and for interval = 0 no pull loop exists and no refresh is
\* forced.
C4_Amended ==
  (/\ pc["main"] \in {"ready", "closed"} /\ initRet.path = "local" /\ initRet.err = NoErr
   /\ localBuf \in Bytes /\ initRet.age > interval)
    => IF StartsLoop
       THEN /\ pc["loop"] # "off" /\ loopForce
            /\ pc["loop"] = "begin" => forcedRuns = 0
            /\ pc["loop"] \in {"arm", "wait", "exited"} => forcedRuns = 1
       ELSE pc["loop"] = "off" /\ forcedRuns = 0

\* the forced refresh has run and the timer is armed
C4_Witness ==
  /\ initRet.path = "local" /\ initRet.age > interval /\ localBuf \in Bytes
  /\ pc["loop"] = "wait" /\ loopForce /\ forcedRuns = 1

\* C5 (as claimed): with a readable, parseable mirror newer than
\* now - interval, Initial returns the value parsed from the mirror, has not
\* called vehicle.Read, and its loadBuf does not write the mirror.
C5_Original ==
  /\ []((/\ pc["main"] \in {"ready", "closed"}
         /\ localBuf \in Bytes /\ ParseOk(localBuf) /\ initRet.age < interval)
          => (initReads = 0 /\ initRet.err = NoErr /\ initRet.val = Parse(localBuf)))
  /\ [][ (pc["main"] = "body" /\ pc'["main"] # "body" /\ cont["main"] = "init_local")
           => UNCHANGED <<mirror, mirrorModTime, mirrorReadable>> ]_vars

\* C5 (amended): ... Initial returns the value parsed from the mirror, or
\* the setup error when the watcher of a File vehicle cannot be set up; in
\* both cases it has not called vehicle.Read and has not written the mirror.
C5_Amended ==
  /\ []((/\ pc["main"] \in {"ready", "closed"}
         /\ localBuf \in Bytes /\ ParseOk(localBuf) /\ initRet.age < interval)
          => /\ initReads = 0
             /\ initRet.path = "local" /\ ~initRet.force
             /\ \/ initRet.err = NoErr /\ initRet.val = Parse(localBuf)
                \/ kind = "File" /\ initRet.err = "watch" /\ initRet.val = Empty)
  /\ [][ (pc["main"] = "body" /\ pc'["main"] # "body" /\ cont["main"] = "init_local")
           => UNCHANGED <<mirror, mirrorModTime, mirrorReadable>> ]_vars

\* Initial has returned the value of a fresh mirror
C5_Witness ==
  /\ pc["main"] = "ready" /\ localBuf = "a" /\ initRet.age < interval
  /\ initRet.err = NoErr /\ initRet.val = Parse("a") /\ initReads = 0

\* C6 (as claimed): when the fallback Update of Initial fails with a read or
\* parse error, the refresh driver has been started, without a forced
\* refresh, when Initial returns, and Initial returns that error.
C6_Original ==
  (/\ pc["main"] = "ready" /\ initRet.path = "fallback"
   /\ ret["main"].err \in {"read", "parse"})
    => /\ pc["loop"] # "off" \/ watcher = "started"
       /\ ~loopForce /\ forcedRuns = 0
       /\ initRet.err = ret["main"].err

\* C6 (amended): startPullLoop(false) has run when Initial returns: a File
\* vehicle has its watcher started and Initial returns the Update error, or
\* watch setup failed and Initial returns the setup error; a remote vehicle
\* with interval > 0 has its pull loop started without a forced refresh, one
\* with interval = 0 has no driver, and Initial returns the Update error.
C6_Amended ==
  (/\ pc["main"] = "ready" /\ initRet.path = "fallback"
   /\ ret["main"].err \in {"read", "parse"})
    => /\ ~loopForce /\ forcedRuns = 0 /\ initRet.val = Empty
       /\ kind = "File" =>
            /\ pc["loop"] = "off"
            /\ \/ watcher = "started" /\ initRet.err = ret["main"].err
               \/ watcher \in {"nil", "created"} /\ initRet.err = "watch"
       /\ kind # "File" =>
            /\ watcher = "nil" /\ initRet.err = ret["main"].err
            /\ interval > 0 <=> pc["loop"] # "off"

\* Initial has returned the read error of its fallback Update and the pull
\* loop is running
C6_Witness ==
  /\ pc["main"] = "ready" /\ initRet.path = "fallback" /\ initRet.err = "read"
  /\ ret["main"].err = "read" /\ pc["loop"] = "wait" /\ ~loopForce

\* C7 (as claimed): when watch setup fails Initial returns the setup error
\* and nothing is left half-started: no fingerprint committed, no onUpdate
\* invoked, no watch registration and no timer loop active.
C7_NotHalfStarted ==
  (pc["main"] = "ready" /\ initRet.err = "watch")
    => /\ hash = ZeroHash /\ nUpdate = 0
       /\ watcher # "started" /\ pc["watch"] = "off" /\ pc["loop"] = "off"

\* C8: a pipeline execution that fails with a read error or a parse error
\* adds exactly one attempt, returns the error, leaves f.hash, f.updatedAt
\* and the mirror as they were and invokes no callback.
C8_FailureLeavesState ==
  [][ \A p \in Procs :
        LET readFailed == pc[p] = "read" /\ pc'[p] \notin {"read", "lock"}
            parseFailed == /\ pc[p] = "body" /\ pc'[p] # "body"
                           /\ ~HashEqual(hash, hsh[p])
                           /\ buf[p] # Nil /\ ~ParseOk(buf[p])
        IN (readFailed \/ parseFailed) =>
             /\ attempt' = attempt + 1
             /\ UNCHANGED <<hash, updatedAt, mirror, mirrorModTime, mirrorReadable, nUpdate>>
             /\ p \in {"main", "user"}
                  => ret'[p].err = (IF readFailed THEN "read" ELSE "parse") ]_vars

\* a manual call has failed to parse after a commit
C8_Witness ==
  /\ pc["user"] = "idle" /\ ret["user"].err = "parse"
  /\ lastExec.outcome = "parsefail" /\ attempt >= 1 /\ nUpdate >= 1

\* C9: when parsing succeeds and the mirror write fails, loadBuf returns the
\* write error, leaves f.hash, f.updatedAt and the mirror as they were,
\* invokes no callback and leaves the attempt counter at zero; the next
\* execution with the same bytes parses and writes again.
C9_WriteFailure ==
  /\ [](lastExec.prev = "writefail" => lastExec.outcome \in {"writefail", "commit"})
  /\ [][ \A p \in Procs :
           (pc[p] = "body" /\ pc'[p] # "body" /\ lastExec'.outcome = "writefail") =>
             /\ attempt' = 0
             /\ UNCHANGED <<hash, updatedAt, mirror, mirrorModTime, mirrorReadable, nUpdate>>
             /\ p \in {"main", "user"} => ret'[p].err = "write" ]_vars

\* a SideUpdate whose write failed has been repeated and has committed
C9_Witness ==
  /\ lastExec.side /\ lastExec.prev = "writefail" /\ lastExec.outcome = "commit"
  /\ attempt = 0 /\ hash = MakeHash(lastExec.buf)

\* the delays of NewFetcher's backoff, for intervals 0..MaxInterval: they do
\* not decrease with n and do not exceed the interval
BackoffMonotone ==
  \A iv \in 0..MaxInterval : \A n \in 1..(MaxAttempt + 1) :
    ForAttempt(iv, n) <= ForAttempt(iv, n + 1) /\ ForAttempt(iv, n + 1) <= iv

\* C10 (as claimed): ForAttempt(n) <= ForAttempt(n+1) <= interval for every
\* n >= 1, and after any pipeline execution that returns no error the delay
\* for the next failure is the one for n = 1.
C10_Original ==
  /\ [](BackoffMonotone)
  /\ [][ \A p \in Procs :
           (/\ pc[p] = "body" /\ pc'[p] # "body"
            /\ lastExec'.outcome \in {"same", "absent", "commit"})
             => ForAttempt(interval, attempt' + 1) = ForAttempt(interval, 1) ]_vars

\* C10 (amended): ... and after a pipeline execution that confirmed an equal
\* fingerprint or parsed successfully the delay for the next failure is the
\* one for n = 1; an execution that reports unchanged because the bytes are
\* absent leaves the attempt counter as it was.
C10_Amended ==
  /\ [](BackoffMonotone)
  /\ [][ \A p \in Procs :
           (pc[p] = "body" /\ pc'[p] # "body") =>
             /\ lastExec'.outcome \in {"same", "writefail", "commit"}
                  => /\ attempt' = 0
                     /\ ForAttempt(interval, attempt' + 1) = ForAttempt(interval, 1)
             /\ lastExec'.outcome = "absent" => attempt' = attempt ]_vars

\* a manual Update failed to read, and an unchanged confirmation has since
\* reset the counter
C10_Witness ==
  /\ pc["user"] = "idle" /\ ret["user"].err = "read"
  /\ lastExec.outcome = "same" /\ attempt = 0

\* three successive reads in the history, starting at entry i, that returned
\* the fingerprints h1, h1, h2
Scenario(i) ==
  /\ updLog[i].readOk /\ updLog[i + 1].readOk /\ updLog[i + 2].readOk
  /\ updLog[i + 1].read = updLog[i].read
  /\ updLog[i + 2].read # updLog[i].read

\* C11 (as claimed): when three successive reads return h1, h1, h2, the three
\* Update() calls report unchanged, unchanged, changed and onUpdate is
\* invoked exactly once, by the third call.
C11_Original ==
  \A i \in 1..(Len(updLog) - 2) :
    Scenario(i) =>
      /\ updLog[i].same /\ updLog[i].err = NoErr /\ updLog[i].calls = 0
      /\ updLog[i + 1].same /\ updLog[i + 1].err = NoErr /\ updLog[i + 1].calls = 0
      /\ ~updLog[i + 2].same /\ updLog[i + 2].err = NoErr /\ updLog[i + 2].calls = 1

\* C11 (amended): that holds when h1 is the stored fingerprint as the first
\* call starts and the content with h2 parses and is written to the mirror;
\* when it fails to parse or to be written the third call returns that error
\* with wasUnchanged=false and onUpdate is not invoked at all.
C11_Amended ==
  \A i \in 1..(Len(updLog) - 2) :
    (Scenario(i) /\ updLog[i].stored = updLog[i].read) =>
      /\ updLog[i].same /\ updLog[i].err = NoErr /\ updLog[i].calls = 0
      /\ updLog[i + 1].same /\ updLog[i + 1].err = NoErr /\ updLog[i + 1].calls = 0
      /\ ~updLog[i + 2].same
      /\ \/ updLog[i + 2].err = NoErr /\ updLog[i + 2].calls = 1
         \/ updLog[i + 2].err \in {"parse", "write"} /\ updLog[i + 2].calls = 0

\* unchanged, unchanged, changed: the third call has invoked onUpdate
C11_Witness ==
  /\ Len(updLog) = 3 /\ Scenario(1) /\ updLog[1].stored = updLog[1].read
  /\ updLog[1].same /\ updLog[2].same /\ ~updLog[3].same
  /\ updLog[3].err = NoErr /\ updLog[3].calls = 1 /\ pc["user"] = "idle"

\* C12: a File vehicle gets a watch registration and never a timer loop, even
\* with interval > 0; a remote vehicle with interval > 0 gets the timer loop
\* and no watch registration; a remote vehicle with interval = 0 gets
\* neither; so the two are never active together.
C12_OneDriver ==
  /\ ~(watcher = "started" /\ pc["loop"] \notin {"off", "exited"})
  /\ kind = "File" => pc["loop"] = "off"
  /\ kind # "File" => (watcher = "nil" /\ pc["watch"] = "off")
  /\ (kind # "File" /\ interval = 0) => pc["loop"] = "off"
  /\ (pc["main"] \in {"ready", "closed"} /\ initRet.err # "watch") =>
       /\ kind = "File" => watcher \in {"started", "closed"}
       /\ (kind # "File" /\ interval > 0) => pc["loop"] # "off"

\* a File vehicle with interval > 0 is watched and has no timer loop
C12_Witness ==
  /\ kind = "File" /\ interval > 0 /\ pc["main"] = "ready"
  /\ watcher = "started" /\ pc["watch"] = "idle" /\ pc["loop"] = "off"

\* C13: at most one goroutine is inside loadBuf's commit phase at a time and
\* it is the mutex holder, so onUpdate is invoked by the holder only; the
\* mutex is held by nobody outside the commit phase, in particular by no
\* goroutine whose vehicle.Read is in progress, so a pending Read leaves the
\* mutex free for the others.
C13_CommitsSerial ==
  /\ [](/\ Cardinality({p \in Procs : pc[p] = "body"}) <= 1
        /\ \A p \in Procs : pc[p] = "body" => mutex = p
        /\ \A p \in Procs : pc[p] = "read" => mutex # p
        /\ mutex # "free" => pc[mutex] = "body")
  /\ [][ nUpdate' # nUpdate => (mutex # "free" /\ pc[mutex] = "body" /\ mutex' = "free") ]_vars

\* the watch callback's Read is still in progress and a SideUpdate has
\* committed in the meantime
C13_Witness ==
  /\ pc["watch"] = "read" /\ old["watch"] # hash
  /\ lastExec.side /\ lastExec.outcome = "commit" /\ pc["user"] = "idle"

\* C14 (as claimed): f.hash, f.updatedAt and the attempt counter change only
\* in steps of the mutex holder, f.hash only after the parser has accepted
\* the bytes, and f.hash is read (for vehicle.Read) only by the mutex holder.
C14_UnderLock ==
  [][ /\ (hash' # hash \/ updatedAt' # updatedAt \/ attempt' # attempt)
           => (mutex # "free" /\ pc[mutex] = "body")
      /\ hash' # hash => (mutex # "free" /\ ParseOk(buf[mutex]))
      /\ \A p \in Procs : (pc[p] # "read" /\ pc'[p] = "read") => mutex = p ]_vars

\* C15 (as claimed): the attempt counter is zero after every pipeline
\* execution that did not fail with a read or parse error, the absent-bytes
\* kind of unchanged included.
C15_Original ==
  [][ \A p \in Procs :
        LET readFailed == pc[p] = "read" /\ pc'[p] \notin {"read", "lock"}
            done == pc[p] = "body" /\ pc'[p] # "body"
        IN /\ (done /\ lastExec'.outcome # "parsefail") => attempt' = 0
           /\ attempt' > attempt
                => \E q \in Procs :
                     \/ pc[q] = "read" /\ pc'[q] \notin {"read", "lock"}
                     \/ pc[q] = "body" /\ pc'[q] # "body" /\ lastExec'.outcome = "parsefail" ]_vars

\* C15 (amended): the counter is zero after an execution that confirmed an
\* equal fingerprint or parsed successfully (whether or not the mirror write
\* then failed); an execution that reports unchanged because the bytes are
\* absent leaves the counter as it was, so it can stay nonzero after a result
\* without error; the counter grows, by one, only in an execution that fails
\* with a read or parse error.
C15_Amended ==
  [][ /\ \A p \in Procs :
           (pc[p] = "body" /\ pc'[p] # "body") =>
             /\ lastExec'.outcome \in {"same", "commit", "writefail"} => attempt' = 0
             /\ lastExec'.outcome = "absent" => attempt' = attempt
             /\ lastExec'.outcome = "parsefail" => attempt' = attempt + 1
      /\ attempt' # attempt =>
           \E q \in Procs :
             \/ pc[q] = "read" /\ pc'[q] \notin {"read", "lock"} /\ attempt' = attempt + 1
             \/ pc[q] = "body" /\ pc'[q] # "body" ]_vars

\* an absent-bytes execution has returned and the counter is still nonzero
C15_Witness ==
  lastExec.outcome = "absent" /\ attempt > 0 /\ mutex = "free"

\* C16: every wait the poll loop schedules is at most interval: the first
\* one is the initial delay (itself at most interval), each later one is
\* interval, and with a nonzero attempt counter the wait is the smaller of
\* that base delay and ForAttempt(attempt).
C16_WaitAtMostInterval ==
  [][ /\ (pc["loop"] = "arm" /\ pc'["loop"] = "wait") =>
           /\ initialInterval <= interval
           /\ timer' - now <= interval
           /\ timer' - now = IF attempt > 0
                             THEN Min2(initialInterval, ForAttempt(interval, attempt))
                             ELSE initialInterval
      /\ (pc["loop"] = "resched" /\ pc'["loop"] = "wait") =>
           /\ timer' - now <= interval
           /\ timer' - now = IF attempt > 0
                             THEN Min2(interval, ForAttempt(interval, attempt))
                             ELSE interval ]_vars

\* after a failed tick the loop waits for the backoff delay, shorter than
\* the interval
C16_Witness ==
  /\ pc["loop"] = "wait" /\ attempt = 1 /\ interval = 30
  /\ timer = now + ForAttempt(interval, 1) /\ timer < now + interval

\* C17 (as claimed): a poll loop started with a forced refresh has run
\* exactly one Update when it creates its timer; when that Update succeeded
\* (it set f.updatedAt) the timer is due one interval after the resulting
\* f.updatedAt, which is later than now when the refresh succeeded within the
\* last interval: no second refresh follows back to back.
C17_WaitAfterForced ==
  [][ (pc["loop"] = "arm" /\ pc'["loop"] = "wait" /\ loopForce) =>
        /\ forcedRuns = 1
        /\ (updatedAt # modTime /\ attempt = 0) =>
             /\ timer' = updatedAt + interval
             /\ now - updatedAt < interval => timer' > now ]_vars

\* the attempt cap of the model keeps the loop from finishing a parse that
\* must fail
AtAttemptCap ==
  pc["loop"] = "body" /\ attempt = MaxAttempt /\ ~ENABLED (LoadBuf("loop") /\ UNCHANGED obsVars)

\* C18: the poll loop leaves its loop only from the wait and only when the
\* context is cancelled, never because an Update failed or reported no
\* change; a cancelled context lets it leave the wait whatever time remains
\* on the timer; and once Close() has been called the loop eventually exits.
C18_LoopExitsOnClose ==
  /\ [][ pc'["loop"] = "exited" => (pc["loop"] \in {"wait", "exited"} /\ ctxDone) ]_vars
  /\ [][ (pc["loop"] = "resched" /\ pc'["loop"] # "resched") => pc'["loop"] = "wait" ]_vars
  /\ []((pc["loop"] = "wait" /\ ctxDone) => ENABLED (PullLoopExit /\ UNCHANGED obsVars))
  /\ (ctxDone /\ pc["loop"] # "off") ~> (pc["loop"] = "exited" \/ AtAttemptCap)

\* the loop has exited after Close() while its timer still had time to run,
\* and after an Update of its own that failed
C18_Witness ==
  /\ pc["loop"] = "exited" /\ ctxDone /\ pc["main"] = "closed"
  /\ attempt > 0 /\ now < MaxTime

\* C19: a loadBuf execution whose fingerprint equals f.hash returns
\* unchanged without error whether its bytes are the stored content or are
\* absent, invokes neither parser nor onUpdate, leaves f.hash as
\* it is, sets f.updatedAt to now, resets the attempt counter, and leaves the mirror's
\* contents alone: with persist requested only the timestamp of an existing
\* mirror file moves, without persist nothing of the file changes.
C19_UnchangedCommit ==
  [][ \A p \in Procs :
        (pc[p] = "body" /\ pc'[p] # "body" /\ HashEqual(hash, hsh[p])) =>
          /\ lastExec'.outcome = "same" /\ lastExec'.same /\ lastExec'.calls = 0
          /\ p \in {"main", "user"}
               => (ret'[p].same /\ ret'[p].err = NoErr /\ ret'[p].val = Empty)
          /\ hash' = hash /\ nUpdate' = nUpdate /\ lastValue' = lastValue
          /\ updatedAt' = now /\ attempt' = 0
          /\ mirror' = mirror /\ mirrorReadable' = mirrorReadable
          /\ mirrorModTime' = IF upd[p] /\ mirror # "none" THEN now ELSE mirrorModTime ]_vars

\* a SideUpdate with the stored fingerprint has returned unchanged, the
\* mirror keeping other contents than the bytes submitted
C19_Witness ==
  /\ lastExec.side /\ lastExec.outcome = "same" /\ lastExec.buf # mirror
  /\ pc["user"] = "idle" /\ ret["user"].same /\ hash = MakeHash(lastExec.buf)

\* C20: a loadBuf execution that gets no bytes with a fingerprint other than
\* f.hash returns unchanged without error and leaves f.hash, f.updatedAt,
\* the attempt counter and the mirror as they were, with no parse and no
\* onUpdate.
C20_AbsentBytes ==
  [][ \A p \in Procs :
        (pc[p] = "body" /\ pc'[p] # "body" /\ ~HashEqual(hash, hsh[p]) /\ buf[p] = Nil) =>
          /\ lastExec'.outcome = "absent" /\ lastExec'.same /\ lastExec'.calls = 0
          /\ p \in {"main", "user"}
               => (ret'[p].same /\ ret'[p].err = NoErr /\ ret'[p].val = Empty)
          /\ UNCHANGED <<hash, updatedAt, attempt, mirror, mirrorModTime, mirrorReadable,
                         nUpdate, lastValue>> ]_vars

\* an Update whose Read returned no bytes has met a fingerprint changed by a
\* commit in the meantime, with a failure counted before
C20_Witness ==
  /\ lastExec.outcome = "absent" /\ ~lastExec.side /\ lastExec.buf = Nil
  /\ attempt > 0 /\ nUpdate = 2 /\ mutex = "free"

\* C21: on a remote vehicle, whose Update and SideUpdate commits persist,
\* whenever f.hash is not the zero hash the mirror file holds readable bytes
\* whose hash is f.hash; a step changes f.hash only together with a write
\* of those bytes, or at bootstrap to the hash of the bytes the mirror
\* already holds; a failed write changes neither.
C21_MirrorMatchesHash ==
  /\ [](hash # ZeroHash =>
          (mirror \in Bytes /\ mirrorReadable /\ MakeHash(mirror) = hash))
  /\ [][ /\ hash' # hash => (mirror' \in Bytes /\ MakeHash(mirror') = hash')
         /\ \A p \in Procs :
              (pc[p] = "body" /\ pc'[p] # "body" /\ lastExec'.outcome = "writefail")
                => UNCHANGED <<hash, mirror, mirrorReadable>> ]_vars

\* a SideUpdate has replaced what the bootstrap took from the mirror, after
\* a write that failed
C21_Witness ==
  /\ nUpdate = 2 /\ lastExec.side /\ lastExec.outcome = "commit"
  /\ lastExec.prev = "writefail"
  /\ localBuf \in Bytes /\ mirror = lastExec.buf /\ mirror # localBuf
  /\ hash = MakeHash(mirror)

\* the loop's loadBuf would pass a bound of the model (MaxAttempt for a
\* parse failure, MaxCommits for a commit)
LoopAtCap == pc["loop"] = "body" /\ ~ENABLED LoadBufEnv("loop")

\* the clock of the model reaches the deadline of the timer
TimerWithinClock ==
  \E k \in 0..MaxTime : now + k * TimeStep <= MaxTime /\ timer <= now + k * TimeStep

\* f.hash and the value given to onUpdate are those of the source's content
\* and the attempt counter is zero
SourceCommitted ==
  hash = MakeHash(source) /\ attempt = 0 /\ lastValue = Parse(source)

\* C22: on a remote vehicle with interval > 0 that is never closed, once the
\* source keeps one parseable content and every read and every mirror write
\* succeeds, a loop that waits for its timer eventually has that content
\* committed (f.hash is its hash, the attempt counter is zero), whatever
\* read and parse failures came before; and whatever fails, a failed
\* Initial included, the loop is started and comes back to its wait, with a
\* deadline at most f.interval away.
C22_EventuallyCommits ==
  /\ (settled /\ pc["loop"] = "wait" /\ TimerWithinClock) ~> (SourceCommitted \/ LoopAtCap)
  /\ (pc["main"] = "start") ~> (pc["loop"] = "wait" \/ LoopAtCap)
  /\ (pc["loop"] = "resched") ~> (pc["loop"] = "wait")
  /\ [](pc["loop"] = "wait" => timer <= now + interval)

\* Initial had no mirror and its fallback Update failed; a later tick of
\* the loop has committed the content of the source
C22_Witness ==
  /\ initRet.path = "fallback" /\ initRet.err = "read" /\ localBuf = "none"
  /\ pc["loop"] = "resched" /\ lastExec.outcome = "commit"
  /\ hash = MakeHash(source) /\ attempt = 0 /\ lastValue = Parse(source)
  /\ nUpdate = 1 /\ settled /\ now > StartTime

\* C23: when Update executions race and none of them fails, once no
\* execution is in flight f.hash and the last value given to onUpdate are
\* those of the content that the most recent vehicle.Read returned: content
\* of an earlier read is not committed over content of a later read.
C23_LatestReadWins ==
  (/\ \A p \in Procs : pc[p] \notin {"read", "lock", "body"}
   /\ pc["main"] = "ready"
   /\ lastRead \in Bytes)
    => (hash = MakeHash(lastRead) /\ lastValue = Parse(lastRead))

\* C24: whenever Initial has returned without error a value has been
\* committed: f.hash is not the zero hash and onUpdate has been invoked at
\* least once, also when the mirror file exists and reading it gives no
\* bytes, and when the fallback vehicle.Read reports absent bytes.
C24_InitialCommitted ==
  (pc["main"] \in {"ready", "closed"} /\ initRet.err = NoErr)
    => (hash # ZeroHash /\ nUpdate >= 1)

====
